---- MODULE Spec2Model ----
(***************************************************************************)
(* Model of the GraphQL backend of fullstack-ai-app: the DataAPI data      *)
(* source (resolver cache + NativeSystemModule store), the getData and     *)
(* populateData resolvers with the module-level dataStore, and the AI      *)
(* provider services behind aiServiceFactory.                              *)
(*                                                                         *)
(* Execution follows the Node.js event loop: a resolver runs synchronously *)
(* up to its first await; every await is a point where the call is parked  *)
(* until its continuation runs as a microtask; setTimeout callbacks run    *)
(* only when they are due and no microtask is pending.                     *)
(***************************************************************************)
EXTENDS Integers, Sequences, FiniteSets, TLC

(* ------------------------------ bounds --------------------------------- *)

\* number of resolver calls (requests) in one run
MaxCalls == 2

\* Date.now() is observed up to this many milliseconds after start
MaxClock == 3000

\* Math.random() is modelled as k / RandomSteps, k \in 0..RandomSteps-1
RandomSteps == 5

\* the draws used for the category of an item are 0..MaxCategoryDraw
MaxCategoryDraw == 0

(* ------------------------- program constants --------------------------- *)

\* setTimeout(resolve, 1500) in NativeSystemModule.populateData
PopulateDelayMs == 1500

\* setTimeout(..., 1000) in OpenAIService / HuggingFaceService.simulateResponse
SimulateDelayMs == 1000

\* granularity at which the passing of time is observed
TickMs == 500

\* Math.floor(Math.random() * 5) + 3
CountSpan == 5

CountBase == 3

(* ------------------------------ strings -------------------------------- *)
\* A JavaScript string is a sequence of one-character strings.

UpperChars ==
  <<"A", "B", "C", "D", "E", "F", "G", "H", "I", "J", "K", "L", "M",
    "N", "O", "P", "Q", "R", "S", "T", "U", "V", "W", "X", "Y", "Z">>

LowerChars ==
  <<"a", "b", "c", "d", "e", "f", "g", "h", "i", "j", "k", "l", "m",
    "n", "o", "p", "q", "r", "s", "t", "u", "v", "w", "x", "y", "z">>

\* String.prototype.toLowerCase on one character
LowerChar(ch) ==
  IF \E i \in 1..Len(UpperChars) : UpperChars[i] = ch
  THEN LowerChars[CHOOSE i \in 1..Len(UpperChars) : UpperChars[i] = ch]
  ELSE ch

toLowerCase(s) == [i \in 1..Len(s) |-> LowerChar(s[i])]

IsSpace(ch) == ch = " "

\* String.prototype.trim: drop leading and trailing white space
trim(s) ==
  IF \A i \in 1..Len(s) : IsSpace(s[i]) THEN <<>>
  ELSE LET first == CHOOSE i \in 1..Len(s) :
                      /\ ~IsSpace(s[i])
                      /\ \A j \in 1..(i-1) : IsSpace(s[j])
           last  == CHOOSE i \in 1..Len(s) :
                      /\ ~IsSpace(s[i])
                      /\ \A j \in (i+1)..Len(s) : IsSpace(s[j])
       IN SubSeq(s, first, last)

\* String.prototype.includes
includes(s, t) ==
  \E i \in 0..(Len(s) - Len(t)) : SubSeq(s, i + 1, i + Len(t)) = t

\* the JavaScript value undefined (a missing argument); no string equals it
Undefined == <<"undefined">>

\* mutant: the query is lower-cased and not trimmed
normalizedQuery_NoTrim(query) == toLowerCase(query)

\* const normalizedQuery = query.toLowerCase().trim()
normalizedQuery(query) == trim(toLowerCase(query))

(* ------------------------------- maps ---------------------------------- *)
\* A JavaScript Map is a function whose domain is the set of its keys.

EmptyMap == [k \in {} |-> <<>>]

MapHas(m, k) == k \in DOMAIN m

MapSet(m, k, v) == [x \in (DOMAIN m) \cup {k} |-> IF x = k THEN v ELSE m[x]]

\* Map.prototype.get(k) || []
MapGetOrEmpty(m, k) == IF MapHas(m, k) THEN m[k] ELSE <<>>

(* ----------------------- NativeSystemModule ---------------------------- *)

\* const categories = ['research', 'article', 'report', 'analysis', 'study']
categories == <<"research", "article", "report", "analysis", "study">>

\* the values Math.random() takes in the model: k stands for k / RandomSteps
RandomValues == 0..(RandomSteps - 1)

\* the values drawn for an item's category
CategoryDraws == {k \in RandomValues : k <= MaxCategoryDraw}

\* Math.floor(Math.random() * n) for the draw k / RandomSteps
FloorRandomTimes(k, n) == (k * n) \div RandomSteps

\* mutant: the count without its base of 3
mockCount_NoBase(rCount) == FloorRandomTimes(rCount, CountSpan)

\* const count = Math.floor(Math.random() * 5) + 3
\* mutant: no item is generated
mockCount_Zero(rCount) == 0

mockCount(rCount) == FloorRandomTimes(rCount, CountSpan) + CountBase

\* mutant: the generator yields no item
generateMockData_NoItems(query, now, rCount, rCat) == <<>>

\* generateMockData(query): rCount is the draw for the count, rCat[i] the
\* draw for the category of the i-th item, now the value of Date.now()
generateMockData(query, now, rCount, rCat) ==
  [n \in 1..mockCount(rCount) |->
     [id        |-> <<"native", now, n - 1>>,
      title     |-> <<query, categories[FloorRandomTimes(rCat[n], Len(categories)) + 1], n>>,
      content   |-> <<"This is native system generated content for \"", query,
                      "\". This data was populated by the native system module because it wasn't available in the GraphQL cache.">>,
      source    |-> "Native System Module",
      timestamp |-> now]]

\* hasData(query): this.dataStore.has(query.toLowerCase())
hasData(st, query) == MapHas(st, toLowerCase(query))

\* getData(query): this.dataStore.get(query.toLowerCase()) || []
getData(st, query) == MapGetOrEmpty(st, toLowerCase(query))

\* mutant: the generated data is appended to what the entry held
storeAfterPopulate_Appends(st, query, data) ==
  MapSet(st, toLowerCase(query), MapGetOrEmpty(st, toLowerCase(query)) \o data)

\* mutant: the generated data is returned but not stored
storeAfterPopulate_NotStored(st, query, data) == st

\* populateData(query), the part after the delay: this.dataStore.set(...)
storeAfterPopulate(st, query, data) == MapSet(st, toLowerCase(query), data)

(* ------------------------- provider services --------------------------- *)

Str_technology == <<"t", "e", "c", "h", "n", "o", "l", "o", "g", "y">>

Str_science == <<"s", "c", "i", "e", "n", "c", "e">>

Str_business == <<"b", "u", "s", "i", "n", "e", "s", "s">>

Str_health == <<"h", "e", "a", "l", "t", "h">>

Str_politics == <<"p", "o", "l", "i", "t", "i", "c", "s">>

Str_education == <<"e", "d", "u", "c", "a", "t", "i", "o", "n">>

\* const topics = {...} of OpenAIService.generateSimulatedContent, in key order
OpenAITopics ==
  << [key |-> Str_technology, text |-> "The latest advancements in technology show significant progress in artificial intelligence and quantum computing. Researchers have developed new algorithms that improve efficiency by 30% while reducing computational requirements."],
     [key |-> Str_science, text |-> "Recent scientific studies have revealed fascinating insights into cellular regeneration. The findings suggest potential applications in treating degenerative diseases and extending human lifespan."],
     [key |-> Str_business, text |-> "Market analysis indicates a shift towards sustainable business practices. Companies adopting green technologies are seeing 25% higher customer retention rates and improved brand loyalty."],
     [key |-> Str_health, text |-> "New research in health sciences points to the importance of microbiome diversity for overall wellbeing. A balanced diet rich in diverse plant foods can significantly improve gut health and immune function."],
     [key |-> Str_politics, text |-> "Political analysts observe increasing polarization in democratic systems worldwide. Bridging divides requires improved communication channels and focus on shared values rather than differences."],
     [key |-> Str_education, text |-> "Educational paradigms are evolving with technology integration. Personalized learning approaches show 40% better outcomes in student engagement and knowledge retention compared to traditional methods."] >>

OpenAIGeneral ==
  "Based on the available information, this query requires a nuanced understanding of multiple factors. Consider exploring specific aspects to get more detailed insights."

\* const topics = {...} of HuggingFaceService.generateSimulatedContent, in key order
HuggingFaceTopics ==
  << [key |-> Str_technology, text |-> "Technological advancements continue to reshape our world at an unprecedented pace. Recent developments in neural networks have enabled more efficient processing with lower computational requirements, making AI more accessible to smaller organizations."],
     [key |-> Str_science, text |-> "Scientific research has made remarkable strides in understanding cellular mechanisms. New findings suggest potential applications in regenerative medicine that could revolutionize treatment approaches for previously incurable conditions."],
     [key |-> Str_business, text |-> "Business trends indicate a growing emphasis on sustainable practices and ethical considerations. Companies implementing environmentally conscious policies are experiencing improved customer loyalty and stronger market positioning."],
     [key |-> Str_health, text |-> "Health research emphasizes the critical role of preventative care and lifestyle factors. Studies show that regular physical activity combined with a balanced diet can significantly reduce the risk of chronic diseases."],
     [key |-> Str_politics, text |-> "Political landscapes are experiencing increased fragmentation across democratic systems. Building consensus requires focusing on shared values and establishing common ground despite ideological differences."],
     [key |-> Str_education, text |-> "Educational methodologies are evolving to incorporate more personalized approaches. Adaptive learning systems that respond to individual student needs show promising results in improving learning outcomes across diverse student populations."] >>

HuggingFaceGeneral ==
  "The query requires consideration of multiple factors and perspectives. A more specific question would help provide more targeted information on this topic."

\* Object.keys(topics).find(topic => query.toLowerCase().includes(topic.toLowerCase()))
\* followed by: matchedTopic ? topics[matchedTopic] : <general response>
baseContent(topics, general, query) ==
  LET hits == {i \in 1..Len(topics) :
                 includes(toLowerCase(query), toLowerCase(topics[i].key))}
  IN IF hits = {} THEN general
     ELSE topics[CHOOSE i \in hits : \A j \in hits : i <= j].text

\* OpenAIService.generateSimulatedContent: `${baseContent}\n\n<closing line>`,
\* kept as the sequence of its lines; the closing line as its three pieces
OpenAIContent(query) ==
  << baseContent(OpenAITopics, OpenAIGeneral, query),
     "",
     << "This analysis is based on processing your query \"", query,
        "\" through advanced language models. For more specific information, please refine your question with additional details." >> >>

HuggingFaceContent(query) ==
  << baseContent(HuggingFaceTopics, HuggingFaceGeneral, query),
     "",
     << "This response was generated based on your query: \"", query,
        "\". For more detailed information, consider specifying particular aspects of interest." >> >>

\* OpenAIService.simulateResponse, the object built in the timer callback
OpenAIResponse(query, now) ==
  [id        |-> <<"openai", now>>,
   title     |-> <<"OpenAI Analysis: ", query>>,
   content   |-> OpenAIContent(query),
   source    |-> "OpenAI GPT-4",
   model     |-> "gpt-4-simulated",
   timestamp |-> now]

\* HuggingFaceService.simulateResponse, the object built in the timer callback
HuggingFaceResponse(query, now) ==
  [id        |-> <<"huggingface", now>>,
   title     |-> <<"HuggingFace Analysis: ", query>>,
   content   |-> HuggingFaceContent(query),
   source    |-> "HuggingFace Mistral-7B",
   model     |-> "mistralai/Mistral-7B-Instruct-v0.2-simulated",
   timestamp |-> now]

\* this.services = { openai: ..., huggingface: ... }
services == {"openai", "huggingface"}

\* a property every object inherits from Object.prototype: services.constructor
\* is the function Object, which is truthy and is no service
InheritedKeys == {"constructor"}

\* this.services[provider]: an own property, an inherited one, or undefined
servicesLookup(provider) ==
  IF provider \in services THEN [kind |-> "service", name |-> provider]
  ELSE IF provider \in InheritedKeys THEN [kind |-> "inherited", name |-> provider]
  ELSE [kind |-> "undefined", name |-> provider]

\* mutant: every service answers as the OpenAI service does
serviceResponse_AlwaysOpenAI(provider, query, now) == OpenAIResponse(query, now)

\* the response of the service registered under provider
serviceResponse(provider, query, now) ==
  IF provider = "openai" THEN OpenAIResponse(query, now)
  ELSE HuggingFaceResponse(query, now)

(* ------------------------------- state --------------------------------- *)

VARIABLES
  calls,      \* the resolver calls started so far, in order of arrival
  cache,      \* cache[i]: this.cache of DataAPI instance i
  store,      \* store[i]: nativeSystemModule.dataStore of DataAPI instance i
  dataStore,  \* the module-level dataStore of the resolvers
  clock,      \* Date.now(), in milliseconds since start
  wiring,     \* how a call gets its dataSources.dataAPI
  ui          \* the state of the App component and the operations it issued

vars == <<calls, cache, store, dataStore, clock, wiring, ui>>

\* a session of calls on one DataAPI instance is one call longer than MaxCalls
SessionCalls == MaxCalls + 1

Instances == 1..SessionCalls

\* the query argument of a call: missing, or a string
QueryArgs == {Undefined, <<"a", "i">>, <<" ", "A", "I">>, <<"q">>, <<" ">>}

\* the provider argument of a call: missing, or a string
ProviderArgs == {"undefined", "huggingface", "cohere"}

\* the arguments of the calls of a session
SessionQueryArgs == {<<"a", "i">>, <<"q">>}

SessionProviderArgs == {"undefined", "huggingface"}

\* the arguments of calls made directly on aiServiceFactory
RegistryQueryArgs ==
  {<<"q">>, Str_technology, Str_science, Str_business, Str_health,
   Str_politics, Str_education, <<"H", "e", "a", "l", "t", "h">>}

RegistryProviderArgs == {"undefined", "huggingface", "cohere", "constructor"}

\* the arguments of calls made directly on a DataAPI and its nativeSystemModule
DataAPIQueryArgs == {<<"a", "i">>, <<"A", "I">>, <<" ", "A", "I">>}

DataAPIProviderArgs == {"undefined"}

\* the arguments of fetchData calls on a DataAPI whose store may fail
FaultyQueryArgs == {<<"q">>, <<"a", "i">>}

\* the operation of nativeSystemModule that rejects for a call, if any
StoreFaults == {"none", "hasData", "getData", "populateData"}

\* the arguments of the calls whose completion is followed
LiveQueryArgs == {<<"q">>}

LiveProviderArgs == {"undefined", "cohere"}

NoError == <<>>

\* new Error('Failed to fetch data from external source')
FetchFailedMessage == <<"Failed to fetch data from external source">>

Pending == [kind |-> "pending", value |-> <<>>]

\* positions at which a call waits for a microtask (the continuation of an await)
MicrotaskPcs == {"hasData", "getData", "populateData", "fetchData", "processQuery"}

\* positions at which a call waits for a setTimeout callback
TimerPcs == {"populateDelay", "simulateDelay"}

NoMicrotaskPending == \A c \in 1..Len(calls) : calls[c].pc \notin MicrotaskPcs

\* dataSources: () => ({ dataAPI: new DataAPI() }) is run for every request;
\* with any other wiring the calls are made on one DataAPI instance
\* mutant: one DataAPI is built at start-up and serves every request
dataAPI_BuiltOnce(c) == 1

dataAPI(c) == IF wiring = "perRequest" THEN c ELSE 1

(* ------------------------------ DataAPI -------------------------------- *)

\* mutant: clearCache leaves the entries where they are
clearCache_KeepsEntries(ch) == ch

\* clearCache(): this.cache.clear()
clearCache(ch) == EmptyMap

\* mutant: the mutation removes only the entry of its own query
clearCacheOf_OwnQueryOnly(ch, op, query) ==
  IF op = "dataAPI.clearCache" THEN EmptyMap
  ELSE IF op = "populateData" /\ query # Undefined
  THEN [k \in DOMAIN ch \ {normalizedQuery(query)} |-> ch[k]]
  ELSE ch

\* the cache a call's fetchData finds: Mutation.populateData and a direct
\* clearCache call run this.cache.clear() first
clearCacheOf(ch, op, query) ==
  IF op \in {"populateData", "dataAPI.clearCache"} THEN clearCache(ch) ELSE ch

\* mutant: a call for a query that another call is populating waits for that
\* call's entry instead of looking into the store
fetchDataBegin_JoinsPending(query, ch, st) ==
  IF query = Undefined
  THEN [pc |-> "fetchData", key |-> <<>>, cacheHit |-> FALSE, hasNativeData |-> FALSE,
        data |-> <<>>, error |-> FetchFailedMessage, path |-> {}]
  ELSE LET nq == normalizedQuery(query) IN
       IF \/ MapHas(ch, nq)
          \/ \E c \in 1..Len(calls) : calls[c].pc = "populateDelay" /\ calls[c].key = nq
       THEN [pc |-> "fetchData", key |-> nq, cacheHit |-> TRUE, hasNativeData |-> FALSE,
             data |-> MapGetOrEmpty(ch, nq), error |-> NoError, path |-> {"cache"}]
       ELSE [pc |-> "hasData", key |-> nq, cacheHit |-> FALSE,
             hasNativeData |-> hasData(st, nq),
             data |-> <<>>, error |-> NoError, path |-> {}]

\* fetchData(query) up to its first await, on cache ch and store st.
\* The result is the part of the call record that fetchData decides.
fetchDataBegin(query, ch, st) ==
  IF query = Undefined
  THEN \* query.toLowerCase() throws a TypeError; the catch rethrows
       [pc |-> "fetchData", key |-> <<>>, cacheHit |-> FALSE, hasNativeData |-> FALSE,
        data |-> <<>>, error |-> FetchFailedMessage, path |-> {}]
  ELSE LET nq == normalizedQuery(query) IN
       IF MapHas(ch, nq)
       THEN [pc |-> "fetchData", key |-> nq, cacheHit |-> TRUE, hasNativeData |-> FALSE,
             data |-> ch[nq], error |-> NoError, path |-> {"cache"}]
       ELSE [pc |-> "hasData", key |-> nq, cacheHit |-> FALSE,
             hasNativeData |-> hasData(st, nq),
             data |-> <<>>, error |-> NoError, path |-> {}]

\* mutant: populateData is called whatever hasData answered
fetchDataAfterHasData_AlwaysPopulate(c) ==
  /\ calls' = [calls EXCEPT ![c] =
       [calls[c] EXCEPT !.pc = "populateDelay",
                        !.due = clock + PopulateDelayMs,
                        !.path = @ \cup {"populate"}]]
  /\ UNCHANGED <<cache, store, dataStore, clock, wiring, ui>>

\* mutant: populateData makes its store entry before its delay
fetchDataAfterHasData_StoresEarly(c) ==
  LET r == calls[c] IN
  /\ calls' = [calls EXCEPT ![c] =
       IF r.hasNativeData
       THEN [r EXCEPT !.pc = "getData",
                      !.data = getData(store[r.inst], r.key),
                      !.path = @ \cup {"store"}]
       ELSE [r EXCEPT !.pc = "populateDelay",
                      !.due = clock + PopulateDelayMs,
                      !.path = @ \cup {"populate"}]]
  /\ store' = IF r.hasNativeData THEN store
              ELSE [store EXCEPT ![r.inst] = MapSet(@, r.key, <<>>)]
  /\ UNCHANGED <<cache, dataStore, clock, wiring, ui>>

\* after `await this.nativeSystemModule.hasData(...)`: the store-hit branch
\* calls getData, the other branch calls populateData, which starts its timer
fetchDataAfterHasData(c) ==
  LET r == calls[c] IN
  /\ calls' = [calls EXCEPT ![c] =
       IF r.hasNativeData
       THEN [r EXCEPT !.pc = "getData",
                      !.data = getData(store[r.inst], r.key),
                      !.path = @ \cup {"store"}]
       ELSE [r EXCEPT !.pc = "populateDelay",
                      !.due = clock + PopulateDelayMs,
                      !.path = @ \cup {"populate"}]]
  /\ UNCHANGED <<cache, store, dataStore, clock, wiring, ui>>

\* after `await ...getData(...)` or `await ...populateData(...)`:
\* this.cache.set(normalizedQuery, data); return data
\* mutant: the cache entry is set under the query as it was passed
fetchDataCacheAndReturn_RawKey(c) ==
  LET r == calls[c] IN
  /\ cache' = [cache EXCEPT ![r.inst] = MapSet(@, r.query, r.data)]
  /\ calls' = [calls EXCEPT ![c].pc = "fetchData"]
  /\ UNCHANGED <<store, dataStore, clock, wiring, ui>>

fetchDataCacheAndReturn(c) ==
  LET r == calls[c] IN
  /\ cache' = [cache EXCEPT ![r.inst] = MapSet(@, r.key, r.data)]
  /\ calls' = [calls EXCEPT ![c].pc = "fetchData"]
  /\ UNCHANGED <<store, dataStore, clock, wiring, ui>>

\* the values drawn for the count: every value, in the three-call runs the
\* two extremes
CountDraws ==
  IF wiring \in {"session", "live", "faulty"} THEN {0, RandomSteps - 1}
  ELSE RandomValues

\* mutant: the promise of the delay is never resolved
populateDataAfterDelay_NeverResolves(c) ==
  UNCHANGED <<calls, cache, store, dataStore, clock, wiring, ui>>

\* NativeSystemModule.populateData after its delay: generate, store, return
populateDataAfterDelay(c) ==
  LET r == calls[c] IN
  \E rCount \in CountDraws, rCat \in [1..(CountBase + CountSpan - 1) -> CategoryDraws] :
    LET data == generateMockData(r.key, clock, rCount, rCat) IN
    /\ store' = [store EXCEPT ![r.inst] = storeAfterPopulate(@, r.key, data)]
    /\ calls' = [calls EXCEPT ![c] = [r EXCEPT !.pc = "populateData",
                                               !.data = data,
                                               !.produced = data]]
    /\ UNCHANGED <<cache, dataStore, clock, wiring, ui>>

\* the store's populateData rejects instead of storing and returning data
populateDataRejects(c) ==
  /\ calls' = [calls EXCEPT ![c].pc = "populateData"]
  /\ UNCHANGED <<cache, store, dataStore, clock, wiring, ui>>

\* mutant: the catch of fetchData caches an empty list before it throws
fetchDataCatch_CachesEmpty(c) ==
  /\ calls' = [calls EXCEPT ![c] =
       [calls[c] EXCEPT !.pc = "fetchData", !.data = <<>>,
                        !.error = FetchFailedMessage]]
  /\ cache' = [cache EXCEPT ![calls[c].inst] = MapSet(@, calls[c].key, <<>>)]
  /\ UNCHANGED <<store, dataStore, clock, wiring, ui>>

\* the catch of fetchData, entered from a rejected await:
\* throw new Error('Failed to fetch data from external source')
fetchDataCatch(c) ==
  /\ calls' = [calls EXCEPT ![c] =
       [calls[c] EXCEPT !.pc = "fetchData", !.data = <<>>,
                        !.error = FetchFailedMessage]]
  /\ UNCHANGED <<cache, store, dataStore, clock, wiring, ui>>

(* ------------------------- aiServiceFactory ---------------------------- *)

\* getService(provider): throw new Error(`AI provider '${provider}' is not supported`)
UnsupportedMessage(provider) == <<"AI provider '", provider, "' is not supported">>

\* getService(provider): if (!this.services[provider]) throw ...; return it
getService(provider) ==
  IF servicesLookup(provider).kind = "undefined"
  THEN [kind |-> "threw", value |-> UnsupportedMessage(provider)]
  ELSE [kind |-> "returned", value |-> servicesLookup(provider)]

\* the TypeError of service.processQuery(query) on a value that is no service
NotAFunctionMessage == <<"service.processQuery is not a function">>

\* processQuery(query, provider) up to its first await: getService throws for
\* an unknown provider, calling processQuery on a value that is no service
\* throws, and the catch rethrows; else simulateResponse starts its timer
processQueryBegin(r) ==
  LET service == getService(r.provider) IN
  IF service.kind = "threw"
  THEN [r EXCEPT !.pc = "processQuery",
                 !.error = <<"AI processing failed: ">> \o service.value]
  ELSE IF service.value.kind # "service"
  THEN [r EXCEPT !.pc = "processQuery",
                 !.error = <<"AI processing failed: ">> \o NotAFunctionMessage]
  ELSE [r EXCEPT !.pc = "simulateDelay",
                 !.due = clock + SimulateDelayMs,
                 !.service = service.value.name,
                 !.aiInvoked = TRUE]

\* the setTimeout callback of simulateResponse: build the response, resolve
simulateResponseAfterDelay(c) ==
  LET r == calls[c] IN
  /\ calls' = [calls EXCEPT ![c] =
       [r EXCEPT !.pc = "processQuery",
                 !.aiResponse = <<serviceResponse(r.service, r.query, clock)>>]]
  /\ UNCHANGED <<cache, store, dataStore, clock, wiring, ui>>

(* ------------------------------ resolvers ------------------------------ *)

Returned(v) == [kind |-> "returned", value |-> v]

Threw(m) == [kind |-> "threw", value |-> m]

\* mutant: every fetched item is appended
mergeNew_NoDedup(ds, data) == ds \o data

\* data.filter(item => !existingIds.has(item.id)) appended to dataStore
mergeNew(ds, data) ==
  LET existingIds == {ds[k].id : k \in 1..Len(ds)}
  IN ds \o SelectSeq(data, LAMBDA item : item.id \notin existingIds)

\* mutant: the catch of getData returns an empty list
getDataCatch_ReturnsEmpty(message) == Returned(<<>>)

\* the catch of getData: throw new Error(`Failed to fetch data: ${error.message}`)
getDataCatch(message) == Threw(<<"Failed to fetch data: ">> \o message)

\* mutant: the catch of populateData rethrows
populateDataCatch_Rethrows(message) == Threw(<<"Error: ">> \o message)

\* the catch of populateData: return { success: false, message: `Error: ...` }
populateDataCatch(message) ==
  Returned([success |-> FALSE, message |-> <<"Error: ">> \o message])

\* mutant: the final if of populateData tests data.length > 3
populateSummary_WrongThreshold(data, provider) ==
  IF Len(data) > 3
  THEN Returned([success |-> TRUE,
                 message |-> <<"Successfully populated ", ToString(Len(data)),
                               " items using ", provider>>])
  ELSE Returned([success |-> FALSE, message |-> <<"No data could be populated">>])

\* the final if of populateData
populateSummary(data, provider) ==
  IF Len(data) > 0
  THEN Returned([success |-> TRUE,
                 message |-> <<"Successfully populated ", ToString(Len(data)),
                               " items using ", provider>>])
  ELSE Returned([success |-> FALSE, message |-> <<"No data could be populated">>])

\* mutant: getData goes to the provider without looking at the fetched data
getDataAfterFetch_AlwaysProvider(c) ==
  LET r == calls[c] IN
  IF r.error # NoError
  THEN /\ calls' = [calls EXCEPT ![c] =
                      [r EXCEPT !.pc = "done", !.result = getDataCatch(r.error)]]
       /\ UNCHANGED <<cache, store, dataStore, clock, wiring, ui>>
  ELSE /\ calls' = [calls EXCEPT ![c] = processQueryBegin(r)]
       /\ UNCHANGED <<cache, store, dataStore, clock, wiring, ui>>

\* Query.getData after `await dataSources.dataAPI.fetchData(query)`
getDataAfterFetch(c) ==
  LET r == calls[c] IN
  IF r.error # NoError
  THEN /\ calls' = [calls EXCEPT ![c] =
                      [r EXCEPT !.pc = "done", !.result = getDataCatch(r.error)]]
       /\ UNCHANGED <<cache, store, dataStore, clock, wiring, ui>>
  ELSE IF Len(r.data) > 0
  THEN /\ dataStore' = mergeNew(dataStore, r.data)
       /\ calls' = [calls EXCEPT ![c] =
                      [r EXCEPT !.pc = "done", !.result = Returned(r.data)]]
       /\ UNCHANGED <<cache, store, clock, wiring, ui>>
  ELSE /\ calls' = [calls EXCEPT ![c] = processQueryBegin(r)]
       /\ UNCHANGED <<cache, store, dataStore, clock, wiring, ui>>

\* Query.getData after `await aiServiceFactory.processQuery(query, provider)`
getDataAfterProcessQuery(c) ==
  LET r == calls[c] IN
  IF r.error # NoError
  THEN /\ calls' = [calls EXCEPT ![c] =
                      [r EXCEPT !.pc = "done", !.result = getDataCatch(r.error)]]
       /\ UNCHANGED <<cache, store, dataStore, clock, wiring, ui>>
  ELSE /\ dataStore' = dataStore \o r.aiResponse
       /\ calls' = [calls EXCEPT ![c] =
                      [r EXCEPT !.pc = "done", !.result = Returned(r.aiResponse)]]
       /\ UNCHANGED <<cache, store, clock, wiring, ui>>

\* Mutation.populateData after `await dataSources.dataAPI.fetchData(query)`
populateDataAfterFetch(c) ==
  LET r == calls[c] IN
  IF r.error # NoError
  THEN /\ calls' = [calls EXCEPT ![c] =
                      [r EXCEPT !.pc = "done", !.result = populateDataCatch(r.error)]]
       /\ UNCHANGED <<cache, store, dataStore, clock, wiring, ui>>
  ELSE IF Len(r.data) = 0
  THEN /\ calls' = [calls EXCEPT ![c] = processQueryBegin(r)]
       /\ UNCHANGED <<cache, store, dataStore, clock, wiring, ui>>
  ELSE /\ calls' = [calls EXCEPT ![c] =
                      [r EXCEPT !.pc = "done",
                                !.result = populateSummary(r.data, r.provider)]]
       /\ UNCHANGED <<cache, store, dataStore, clock, wiring, ui>>

\* Mutation.populateData after `await aiServiceFactory.processQuery(query, provider)`
populateDataAfterProcessQuery(c) ==
  LET r == calls[c] IN
  IF r.error # NoError
  THEN /\ calls' = [calls EXCEPT ![c] =
                      [r EXCEPT !.pc = "done", !.result = populateDataCatch(r.error)]]
       /\ UNCHANGED <<cache, store, dataStore, clock, wiring, ui>>
  ELSE /\ dataStore' = dataStore \o r.aiResponse
       /\ calls' = [calls EXCEPT ![c] =
                      [r EXCEPT !.pc = "done",
                                !.data = r.aiResponse,
                                !.result = populateSummary(r.aiResponse, r.provider)]]
       /\ UNCHANGED <<cache, store, clock, wiring, ui>>

(* ---------------------------- direct calls ----------------------------- *)
\* The caller of a method of aiServiceFactory, of a DataAPI or of its
\* nativeSystemModule gets what the method returns or throws.

processQueryReturn(c) ==
  LET r == calls[c] IN
  /\ calls' = [calls EXCEPT ![c] =
       [r EXCEPT !.pc = "done",
                 !.result = IF r.error # NoError THEN Threw(r.error)
                            ELSE Returned(r.aiResponse[1])]]
  /\ UNCHANGED <<cache, store, dataStore, clock, wiring, ui>>

fetchDataReturn(c) ==
  LET r == calls[c] IN
  /\ calls' = [calls EXCEPT ![c] =
       [r EXCEPT !.pc = "done",
                 !.result = IF r.error # NoError THEN Threw(r.error)
                            ELSE Returned(r.data)]]
  /\ UNCHANGED <<cache, store, dataStore, clock, wiring, ui>>

nativePopulateDataReturn(c) ==
  /\ calls' = [calls EXCEPT ![c] =
       [calls[c] EXCEPT !.pc = "done", !.result = Returned(calls[c].data)]]
  /\ UNCHANGED <<cache, store, dataStore, clock, wiring, ui>>

\* the resolvers of the GraphQL schema
ResolverOps == {"getData", "populateData"}

RegistryOps == {"aiServiceFactory.getService", "aiServiceFactory.processQuery"}

DataAPIOps ==
  {"dataAPI.fetchData", "dataAPI.clearCache", "nativeSystemModule.hasData",
   "nativeSystemModule.getData", "nativeSystemModule.populateData"}

\* fetchData and clearCache on a DataAPI whose store may fail
FaultyOps == {"dataAPI.fetchData", "dataAPI.clearCache"}

\* reads, store populations and provider calls side by side
LiveOps ==
  {"getData", "nativeSystemModule.populateData", "aiServiceFactory.processQuery"}

\* a call of operation b.op, with the arguments of record b, up to its first
\* await, on cache ch (already cleared where the operation clears it) and
\* store st
Begin(b, ch, st) ==
  CASE b.op \in ResolverOps \cup {"dataAPI.fetchData"} ->
         LET f == fetchDataBegin(b.query, ch, st) IN
         [b EXCEPT !.pc = f.pc, !.key = f.key, !.cacheHit = f.cacheHit,
                   !.hasNativeData = f.hasNativeData, !.data = f.data,
                   !.error = f.error, !.path = f.path]
    [] b.op = "dataAPI.clearCache" -> [b EXCEPT !.result = Returned(<<>>)]
    [] b.op = "nativeSystemModule.hasData" ->
         [b EXCEPT !.key = b.query, !.result = Returned(hasData(st, b.query))]
    [] b.op = "nativeSystemModule.getData" ->
         [b EXCEPT !.key = b.query, !.data = getData(st, b.query),
                   !.result = Returned(getData(st, b.query))]
    [] b.op = "nativeSystemModule.populateData" ->
         [b EXCEPT !.key = b.query, !.pc = "populateDelay",
                   !.due = clock + PopulateDelayMs, !.path = {"populate"}]
    [] b.op = "aiServiceFactory.getService" -> [b EXCEPT !.result = getService(b.provider)]
    [] b.op = "aiServiceFactory.processQuery" -> processQueryBegin(b)

(* ------------------------------- actions ------------------------------- *)

\* the calls that had completed when call c started
Done == {d \in 1..Len(calls) : calls[d].pc = "done"}

\* the number of calls of a run, and the arguments they are drawn from
CallLimit ==
  IF wiring \in {"session", "live", "faulty"} THEN SessionCalls ELSE MaxCalls

Ops ==
  CASE wiring = "registry" -> RegistryOps
    [] wiring = "dataAPI" -> DataAPIOps
    [] wiring = "live" -> LiveOps
    [] wiring = "faulty" -> FaultyOps
    [] OTHER -> ResolverOps

\* the schema's `query: String!` keeps a missing query from the resolvers of
\* the server; it lets every string through
QueryInputs ==
  CASE wiring = "perRequest" -> QueryArgs \ {Undefined}
    [] wiring = "session" -> SessionQueryArgs
    [] wiring = "registry" -> RegistryQueryArgs
    [] wiring = "dataAPI" -> DataAPIQueryArgs
    [] wiring = "live" -> LiveQueryArgs
    [] wiring = "faulty" -> FaultyQueryArgs
    [] OTHER -> QueryArgs

ProviderInputs ==
  CASE wiring = "session" -> SessionProviderArgs
    [] wiring = "registry" -> RegistryProviderArgs
    [] wiring \in {"dataAPI", "faulty"} -> DataAPIProviderArgs
    [] wiring = "live" -> LiveProviderArgs
    [] OTHER -> ProviderArgs

\* the store's operations return; with "faulty" wiring one of them may reject
FaultInputs == IF wiring = "faulty" THEN StoreFaults ELSE {"none"}

\* call c is parked at its first await: no continuation of it has run yet
Fresh(c) ==
  \/ calls[c].pc = "hasData"
  \/ calls[c].pc = "fetchData" /\ calls[c].path \subseteq {"cache"}

\* A call starts in a task of its own, when the microtask queue is empty, or
\* in the synchronous run that started other calls, which are then still
\* parked at their first await. A request of the server is a task of its own.
\* The calls of a session start together or when no call is in flight.
CanStart ==
  CASE wiring \in {"perRequest", "registry"} -> NoMicrotaskPending
    [] wiring \in {"shared", "dataAPI", "live", "faulty"} ->
         \A c \in 1..Len(calls) : calls[c].pc \in MicrotaskPcs => Fresh(c)
    [] wiring = "session" ->
         \A c \in 1..Len(calls) : calls[c].pc = "done" \/ Fresh(c)

\* An operation is called: the default of the provider parameter is applied
\* (getService has none), populateData and clearCache clear the cache, and the
\* operation runs up to its first await.
Request ==
  /\ Len(calls) < CallLimit
  /\ CanStart
  /\ \E op \in Ops, query \in QueryInputs, arg \in ProviderInputs,
        fault \in FaultInputs :
       LET c  == Len(calls) + 1
           i  == dataAPI(c)
           ch == clearCacheOf(cache[i], op, query)
           b  == [op |-> op, query |-> query,
                  provider |-> IF arg = "undefined" /\ op # "aiServiceFactory.getService"
                               THEN "openai" ELSE arg,
                  inst |-> i, pc |-> "done", key |-> <<>>, cacheHit |-> FALSE,
                  hasNativeData |-> FALSE, data |-> <<>>,
                  error |-> NoError, path |-> {}, due |-> 0,
                  produced |-> <<>>, service |-> "none", aiInvoked |-> FALSE,
                  fault |-> IF op = "dataAPI.clearCache" THEN "none" ELSE fault,
                  aiResponse |-> <<>>, result |-> Pending, after |-> Done]
       IN /\ cache' = [cache EXCEPT ![i] = ch]
          /\ calls' = Append(calls, Begin(b, ch, store[i]))
  /\ UNCHANGED <<store, dataStore, clock, wiring, ui>>

\* The continuation of the await a call is parked at.
RunMicrotask(c) ==
  /\ c \in 1..Len(calls)
  /\ calls[c].pc \in MicrotaskPcs
  /\ CASE calls[c].pc = calls[c].fault -> fetchDataCatch(c)
       [] calls[c].pc = "hasData" -> fetchDataAfterHasData(c)
       [] calls[c].pc \in {"getData", "populateData"} ->
            IF calls[c].op = "nativeSystemModule.populateData"
            THEN nativePopulateDataReturn(c)
            ELSE fetchDataCacheAndReturn(c)
       [] calls[c].pc = "fetchData" ->
            CASE calls[c].op = "getData" -> getDataAfterFetch(c)
              [] calls[c].op = "populateData" -> populateDataAfterFetch(c)
              [] OTHER -> fetchDataReturn(c)
       [] calls[c].pc = "processQuery" ->
            CASE calls[c].op = "getData" -> getDataAfterProcessQuery(c)
              [] calls[c].op = "populateData" -> populateDataAfterProcessQuery(c)
              [] OTHER -> processQueryReturn(c)

\* A due setTimeout callback runs: timers run in the order they fall due, and
\* only once the microtask queue is empty.
TimerFires(c) ==
  /\ c \in 1..Len(calls)
  /\ calls[c].pc \in TimerPcs
  /\ calls[c].due <= clock
  /\ NoMicrotaskPending
  /\ \A d \in 1..Len(calls) : calls[d].pc \in TimerPcs => calls[c].due <= calls[d].due
  /\ CASE calls[c].pc = "simulateDelay" -> simulateResponseAfterDelay(c)
       [] calls[c].fault = "populateData" -> populateDataRejects(c)
       [] OTHER -> populateDataAfterDelay(c)

\* Time passes while some call waits for a timer. Microtasks and due timer
\* callbacks run within the tick in which they become ready.
Tick ==
  /\ clock + TickMs <= MaxClock
  /\ NoMicrotaskPending
  /\ \E c \in 1..Len(calls) : calls[c].pc \in TimerPcs
  /\ \A c \in 1..Len(calls) : calls[c].pc \in TimerPcs => clock < calls[c].due
  /\ clock' = clock + TickMs
  /\ UNCHANGED <<calls, cache, store, dataStore, wiring, ui>>

InitState ==
  /\ calls = <<>>
  /\ cache = [i \in Instances |-> EmptyMap]
  /\ store = [i \in Instances |-> EmptyMap]
  /\ dataStore = <<>>
  /\ clock = 0
  /\ ui = [query |-> <<>>, provider |-> "openai", issued |-> <<>>]

\* the server of index.js: a new DataAPI for every request
Init == InitState /\ wiring = "perRequest"

\* one DataAPI instance behind every call of the resolvers
InitShared == InitState /\ wiring = "shared"

\* a longer session of calls on one DataAPI instance, with fewer arguments
InitSession == InitState /\ wiring = "session"

\* calls made directly on the aiServiceFactory singleton
InitRegistry == InitState /\ wiring = "registry"

\* calls made directly on one DataAPI instance and its nativeSystemModule
InitDataAPI == InitState /\ wiring = "dataAPI"

Next ==
  \/ Request
  \/ \E c \in 1..SessionCalls : RunMicrotask(c)
  \/ \E c \in 1..SessionCalls : TimerFires(c)
  \/ Tick

Spec == Init /\ [][Next]_vars

SpecShared == InitShared /\ [][Next]_vars

SpecSession == InitSession /\ [][Next]_vars

SpecRegistry == InitRegistry /\ [][Next]_vars

SpecDataAPI == InitDataAPI /\ [][Next]_vars

\* a DataAPI whose nativeSystemModule may reject an operation
InitFaulty == InitState /\ wiring = "faulty"

SpecFaulty == InitFaulty /\ [][Next]_vars

\* reads, store populations and provider calls on one DataAPI and the registry
InitLive == InitState /\ wiring = "live"

\* The event loop runs every pending continuation and every due timer
\* callback, and time passes; nothing obliges a caller to start a call.
EventLoopFairness ==
  /\ \A c \in 1..SessionCalls : WF_vars(RunMicrotask(c))
  /\ \A c \in 1..SessionCalls : WF_vars(TimerFires(c))
  /\ WF_vars(Tick)

SpecLive == InitLive /\ [][Next]_vars /\ EventLoopFairness

(* --------------------------------- App --------------------------------- *)
\* The App component: useState('') for query, the provider of
\* AIProviderContext (useState('openai')), and the operations it has issued.

\* the texts QueryForm submits: trimmed and not empty
UiQueryTexts == {<<"q">>, <<"a", "i">>}

\* the buttons of AIToggle: onToggle('openai'), onToggle('huggingface')
UiProviders == {"openai", "huggingface"}

\* what the server answers a getData operation with: items, or an error
ServerResults == {"items", "error"}

\* useQuery(GET_DATA, { ..., skip: !query })
skip == ui.query = <<>>

\* refetch(variables): the getData operation is issued with these variables
refetch(issued, query, provider) ==
  Append(issued, [op |-> "getData", query |-> query, provider |-> provider])

\* toggleProvider(newProvider) of AIProviderContext, on the provider prev
toggleProvider(prev, newProvider) ==
  IF newProvider \in {"openai", "huggingface"} THEN newProvider
  ELSE IF prev = "openai" THEN "huggingface" ELSE "openai"

\* handleSubmit(queryText): setQuery, refetch, and on an empty result the
\* populateData mutation followed by a refetch
handleSubmit(queryText, result) ==
  /\ Len(ui.issued) <= SessionCalls
  /\ ui' = [ui EXCEPT
       !.query = queryText,
       !.issued =
         IF result = "empty"
         THEN refetch(Append(refetch(@, queryText, ui.provider),
                             [op |-> "populateData", query |-> queryText,
                              provider |-> ui.provider]),
                      queryText, ui.provider)
         ELSE refetch(@, queryText, ui.provider)]
  /\ UNCHANGED <<calls, cache, store, dataStore, clock, wiring>>

\* mutant: the toggle changes the provider and issues nothing
handleToggleChange_NoRefetch(newProvider) ==
  /\ ui' = [ui EXCEPT !.provider = toggleProvider(@, newProvider)]
  /\ UNCHANGED <<calls, cache, store, dataStore, clock, wiring>>

\* handleToggleChange(newProvider): toggleProvider(newProvider);
\* if (query) refetch({ query, provider: newProvider })
handleToggleChange(newProvider) ==
  /\ Len(ui.issued) <= SessionCalls
  /\ ui' = [ui EXCEPT
       !.provider = toggleProvider(@, newProvider),
       !.issued = IF ui.query # <<>> THEN refetch(@, ui.query, newProvider) ELSE @]
  /\ UNCHANGED <<calls, cache, store, dataStore, clock, wiring>>

InitUI == InitState /\ wiring = "ui"

NextUI ==
  \/ \E queryText \in UiQueryTexts, result \in ServerResults :
       handleSubmit(queryText, result)
  \/ \E newProvider \in UiProviders : handleToggleChange(newProvider)

SpecUI == InitUI /\ [][NextUI]_vars

(* ------------------------------- claims -------------------------------- *)

Started == 1..Len(calls)

IsDone(c) == calls[c].pc = "done"

\* fetchData of call c has returned a value (not thrown)
FetchReturned(c) ==
  /\ calls[c].pc \in {"fetchData", "simulateDelay", "processQuery", "done"}
  /\ calls[c].path # {}

IdsOf(items) == [k \in 1..Len(items) |-> items[k].id]

\* call d was started after call c had completed, no populateData request
\* arrived between the two, and both are for the same normalized query
ReadAfterRead(c, d) ==
  /\ calls[c].op = "getData" /\ calls[d].op = "getData"
  /\ IsDone(c) /\ IsDone(d)
  /\ c \in calls[d].after
  /\ \A p \in Started : (c < p /\ p < d) => calls[p].op # "populateData"
  /\ calls[c].result.kind = "returned" /\ calls[d].result.kind = "returned"
  /\ calls[c].key = calls[d].key

\* C1: two getData requests for the same normalized query, one after the
\* other with no populateData request between them, return the same items,
\* id for id.
C1_RepeatedReadsIdentical ==
  \A c \in Started : \A d \in Started :
    ReadAfterRead(c, d) =>
      IdsOf(calls[c].result.value) = IdsOf(calls[d].result.value)

\* C2: a fetchData call on a query string that has returned took exactly one
\* of the paths cache hit, store hit, populate; no call takes two; and a call
\* that found a cache entry, or for which hasData returned true, never calls
\* the store's populateData.
C2_ExactlyOnePath ==
  \A c \in Started :
    /\ Cardinality(calls[c].path) <= 1
    /\ FetchReturned(c) => Cardinality(calls[c].path) = 1
    /\ (calls[c].cacheHit \/ calls[c].hasNativeData) =>
         /\ "populate" \notin calls[c].path
         /\ calls[c].produced = <<>>
    /\ calls[c].cacheHit => calls[c].path = {"cache"}

\* a store hit and a populate have both run to completion
C2_Witness ==
  /\ \E c \in Started : IsDone(c) /\ calls[c].path = {"store"} /\ calls[c].hasNativeData
  /\ \E c \in Started : IsDone(c) /\ calls[c].path = {"populate"}

\* C3: a getData request for Q that starts after a populateData request for
\* Q has completed does not run the store's populateData again.
C3_NoSecondPopulate ==
  \A p \in Started : \A g \in Started :
    ( /\ calls[p].op = "populateData" /\ IsDone(p)
      /\ calls[p].result.value.success
      /\ calls[g].op = "getData"
      /\ p \in calls[g].after
      /\ calls[g].key = calls[p].key ) =>
        "populate" \notin calls[g].path

\* C4: when a fetchData call that found neither a cache entry nor store data
\* returns, hasData is true for its query on that store and the cache holds
\* under the normalized query exactly the sequence the call returns.
C4_PopulateLeavesStoreAndCache ==
  [][ \A c \in Started :
        ( /\ calls[c].pc = "populateData"
          /\ calls'[c].pc = "fetchData" ) =>
            /\ ~calls[c].cacheHit /\ ~calls[c].hasNativeData
            /\ hasData(store'[calls[c].inst], calls[c].key)
            /\ MapHas(cache'[calls[c].inst], normalizedQuery(calls[c].query))
            /\ cache'[calls[c].inst][normalizedQuery(calls[c].query)] = calls'[c].data
            /\ Len(calls'[c].data) > 0 ]_vars

\* a fetchData call on the populate path has just returned
C4_Witness ==
  \E c \in Started :
    /\ calls[c].pc = "fetchData"
    /\ calls[c].path = {"populate"}
    /\ calls[c].op = "getData"
    /\ hasData(store[calls[c].inst], calls[c].key)
    /\ MapHas(cache[calls[c].inst], calls[c].key)

\* C5: a getData request answered from the store returns exactly the
\* sequence read from the store, whatever provider was passed, and starts no
\* provider simulator.
C5_StoreHitIgnoresProvider ==
  \A c \in Started :
    ( /\ calls[c].op = "getData" /\ IsDone(c)
      /\ calls[c].hasNativeData ) =>
        /\ calls[c].result = Returned(calls[c].data)
        /\ Len(calls[c].data) > 0
        /\ ~calls[c].aiInvoked
        /\ calls[c].error = NoError

\* a store-hit read with a provider other than the default has completed
C5_Witness ==
  \E c \in Started :
    /\ calls[c].op = "getData" /\ IsDone(c)
    /\ calls[c].hasNativeData
    /\ calls[c].provider = "huggingface"
    /\ calls[c].result.kind = "returned"

\* query matches no topic of the OpenAI topic table
NoTopic(query) == baseContent(OpenAITopics, OpenAIGeneral, query) = OpenAIGeneral

\* a completed getData(Q, "openai") where Q is a string matching no topic,
\* missing from cache and store
OpenAIReadOnMiss(c) ==
  /\ calls[c].op = "getData" /\ IsDone(c)
  /\ calls[c].provider = "openai"
  /\ calls[c].query # Undefined
  /\ ~calls[c].cacheHit /\ ~calls[c].hasNativeData
  /\ NoTopic(calls[c].query)

\* C6 as stated: such a read returns exactly one item, from the OpenAI
\* simulator, whose content's last line quotes the query.
C6_OpenAIItemOnMiss ==
  \A c \in Started :
    OpenAIReadOnMiss(c) =>
      /\ calls[c].result.kind = "returned"
      /\ Len(calls[c].result.value) = 1
      /\ calls[c].result.value[1].source = "OpenAI GPT-4"
      /\ calls[c].result.value[1].content[3][2] = calls[c].query

\* C6 as amended: such a read returns the items the store's populateData
\* generated for the query, all from the native module, and the OpenAI
\* simulator is not started.
C6_NativeItemsOnMiss ==
  \A c \in Started :
    OpenAIReadOnMiss(c) =>
      /\ calls[c].path = {"populate"}
      /\ calls[c].result = Returned(calls[c].produced)
      /\ Len(calls[c].produced) \in 3..7
      /\ \A k \in 1..Len(calls[c].produced) :
           calls[c].produced[k].source = "Native System Module"
      /\ ~calls[c].aiInvoked
      /\ calls[c].aiResponse = <<>>

\* a getData("q", "openai") on a miss has completed
C6_Witness ==
  \E c \in Started : OpenAIReadOnMiss(c) /\ calls[c].query = <<"q">>

AllNative(items) ==
  \A k \in 1..Len(items) : items[k].source = "Native System Module"

\* the store's populateData has produced the items of call c
Populated(c) == calls[c].pc \in {"populateData", "fetchData", "done"} /\ "populate" \in calls[c].path

\* C7: every sequence the store's populateData produces, and every sequence
\* held by a store, has between 3 and 7 items, all with source 'Native System
\* Module'; a getData on an empty store returns such a sequence.
C7_ThreeToSevenNativeItems ==
  /\ \A c \in Started :
       Populated(c) =>
         /\ Len(calls[c].produced) \in 3..7
         /\ AllNative(calls[c].produced)
         /\ (IsDone(c) /\ calls[c].op = "getData") =>
              /\ calls[c].result.kind = "returned"
              /\ Len(calls[c].result.value) \in 3..7
              /\ AllNative(calls[c].result.value)
  /\ \A i \in Instances : \A k \in DOMAIN store[i] :
       Len(store[i][k]) \in 3..7 /\ AllNative(store[i][k])

\* reads on empty stores have returned 3 items and 7 items
C7_Witness ==
  /\ \E c \in Started : IsDone(c) /\ calls[c].op = "getData" /\ Len(calls[c].produced) = 3
  /\ \E c \in Started : IsDone(c) /\ calls[c].op = "getData" /\ Len(calls[c].produced) = 7

Range(f) == {f[k] : k \in DOMAIN f}

\* the items call c obtained from any tier: read from cache or store,
\* generated by the store, or returned by a provider
Obtained(c) == calls[c].data \o calls[c].produced \o calls[c].aiResponse

\* C8: a completed populateData returns success:false only if no tier
\* produced an item for it; if any tier produced items it returns
\* success:true and its message contains the item count and the provider.
C8_PopulateSummary ==
  \A c \in Started :
    (calls[c].op = "populateData" /\ IsDone(c) /\ calls[c].result.kind = "returned") =>
      /\ ~calls[c].result.value.success => Obtained(c) = <<>>
      /\ Obtained(c) # <<>> =>
           /\ calls[c].result.value.success
           /\ ToString(Len(calls[c].data)) \in Range(calls[c].result.value.message)
           /\ calls[c].provider \in Range(calls[c].result.value.message)

\* one populateData has succeeded with generated items, another has failed
C8_Witness ==
  /\ \E c \in Started :
       /\ calls[c].op = "populateData" /\ IsDone(c)
       /\ calls[c].result.value.success
       /\ Len(calls[c].produced) = 5
       /\ calls[c].provider = "huggingface"
  /\ \E c \in Started :
       /\ calls[c].op = "populateData" /\ IsDone(c)
       /\ ~calls[c].result.value.success

\* C9: populateData never throws: it always returns, and a failure below it
\* is returned as {success: false, message: "Error: " + the error's text}.
C9_PopulateNeverThrows ==
  \A c \in Started :
    (calls[c].op = "populateData" /\ IsDone(c)) =>
      /\ calls[c].result.kind = "returned"
      /\ calls[c].error # NoError =>
           calls[c].result.value =
             [success |-> FALSE, message |-> <<"Error: ">> \o calls[c].error]

\* a populateData whose fetchData failed has completed
C9_Witness ==
  \E c \in Started :
    /\ calls[c].op = "populateData" /\ IsDone(c)
    /\ calls[c].error = FetchFailedMessage

\* C10: a completed getData either returns a non-empty sequence or throws
\* 'Failed to fetch data: ' followed by the error's text; it throws whenever
\* something below it failed.
C10_ReadNeverEmpty ==
  \A c \in Started :
    (calls[c].op = "getData" /\ IsDone(c)) =>
      IF calls[c].error = NoError
      THEN /\ calls[c].result.kind = "returned"
           /\ Len(calls[c].result.value) > 0
      ELSE calls[c].result = Threw(<<"Failed to fetch data: ">> \o calls[c].error)

\* one getData has thrown the wrapped error, another has returned items
C10_Witness ==
  /\ \E c \in Started :
       /\ calls[c].op = "getData" /\ IsDone(c)
       /\ calls[c].result.kind = "threw"
  /\ \E c \in Started :
       /\ calls[c].op = "getData" /\ IsDone(c)
       /\ calls[c].result.kind = "returned"

\* call c was made on aiServiceFactory with a provider id that is not registered
Unregistered(c) ==
  /\ calls[c].op \in RegistryOps
  /\ calls[c].provider \notin services

\* C11: getService and processQuery with a provider id that is not registered
\* end in an error thrown to the caller; no simulator is started for it and
\* no item is built or returned.
C11_UnknownIdReported ==
  \A c \in Started :
    Unregistered(c) =>
      /\ ~calls[c].aiInvoked
      /\ calls[c].aiResponse = <<>>
      /\ calls[c].pc # "simulateDelay"
      /\ IsDone(c) => calls[c].result.kind = "threw"

\* this step is a call of clearCache() on the DataAPI
ClearCacheStep ==
  /\ Len(calls') = Len(calls) + 1
  /\ calls'[Len(calls')].op = "dataAPI.clearCache"

\* C12: a call of clearCache() leaves the cache without entries and the store
\* as it was: hasData and getData answer every query as before the call.
C12_ClearCacheKeepsStore ==
  [][ ClearCacheStep =>
        /\ cache'[1] = EmptyMap
        /\ store' = store
        /\ \A q \in DataAPIQueryArgs :
             /\ hasData(store'[1], q) = hasData(store[1], q)
             /\ getData(store'[1], q) = getData(store[1], q) ]_vars

\* clearCache() has been called after a fetchData that populated store and
\* cache had returned; the store still has that data and the cache is empty
C12_Witness ==
  \E c \in Started : \E d \in calls[c].after :
    /\ calls[c].op = "dataAPI.clearCache"
    /\ c = Len(calls)
    /\ calls[d].op = "dataAPI.fetchData"
    /\ calls[d].path = {"populate"}
    /\ hasData(store[1], calls[d].key)
    /\ getData(store[1], calls[d].key) = calls[d].data
    /\ cache[1] = EmptyMap

\* the normalized forms of the query strings
NormalizedQueries == {normalizedQuery(q) : q \in QueryArgs \ {Undefined}}

\* the store's populateData of call c has started and its delay has not elapsed
PopulatePending(c) == calls[c].pc = "populateDelay"

\* C13: on every store, hasData is true for a normalized query exactly when a
\* populateData call for that normalized query has run to completion on that
\* store; a populateData still in its delay does not make it true.
C13_HasDataIffPopulated ==
  \A i \in Instances : \A k \in NormalizedQueries :
    hasData(store[i], k) <=>
      \E c \in Started :
        /\ calls[c].inst = i
        /\ calls[c].query # Undefined
        /\ calls[c].key = k
        /\ Populated(c)

\* one populateData has completed and hasData is true for its query, another
\* is in its delay and hasData is false for its query
C13_Witness ==
  \E c \in Started : \E d \in Started :
    /\ calls[c].inst = calls[d].inst
    /\ Populated(c) /\ hasData(store[calls[c].inst], calls[c].key)
    /\ PopulatePending(d) /\ ~hasData(store[calls[d].inst], calls[d].key)

NoDuplicateIds(items) ==
  \A j \in 1..Len(items) : \A k \in 1..Len(items) :
    items[j].id = items[k].id => j = k

IsPrefix(s, t) == Len(s) <= Len(t) /\ SubSeq(t, 1, Len(s)) = s

\* C14: the module-level dataStore never holds two items with the same id,
\* and every step leaves the items it held in place: it only grows at its end.
C14_DataStoreAppendOnlyDedup ==
  [][ /\ NoDuplicateIds(dataStore')
      /\ IsPrefix(dataStore, dataStore') ]_vars

\* two reads have returned the same ids and dataStore holds them once
C14_Witness ==
  \E c \in Started : \E d \in Started :
    /\ c < d /\ IsDone(c) /\ IsDone(d)
    /\ calls[c].op = "getData" /\ calls[d].op = "getData"
    /\ calls[c].result.kind = "returned" /\ calls[d].result.kind = "returned"
    /\ IdsOf(calls[c].result.value) = IdsOf(calls[d].result.value)
    /\ IdsOf(dataStore) = IdsOf(calls[c].result.value)

\* a resolver call has completed successfully
Succeeded(c) ==
  /\ calls[c].op \in ResolverOps /\ IsDone(c)
  /\ calls[c].result.kind = "returned"
  /\ calls[c].op = "populateData" => calls[c].result.value.success

\* C15: after a getData or a populateData has completed successfully, every
\* item it obtained, from fetchData or from the provider, is in dataStore by
\* its id.
C15_ResultsMerged ==
  \A c \in Started :
    Succeeded(c) =>
      \A k \in 1..Len(Obtained(c)) :
        Obtained(c)[k].id \in Range(IdsOf(dataStore))

\* the query text is empty once trimmed
Blank(query) == query # Undefined /\ trim(query) = <<>>

\* C16: a request whose query text is blank never reaches fetchData: it ends
\* in an error, and no cache entry and no store entry exists under the empty
\* normalized query.
C16_BlankQueryRejected ==
  /\ \A c \in Started :
       (calls[c].op \in ResolverOps /\ Blank(calls[c].query)) =>
         /\ calls[c].path = {}
         /\ calls[c].pc \notin {"hasData", "populateDelay", "getData", "populateData"}
         /\ IsDone(c) => \/ calls[c].result.kind = "threw"
                         \/ /\ calls[c].op = "populateData"
                            /\ ~calls[c].result.value.success
  /\ \A i \in Instances : ~MapHas(cache[i], <<>>) /\ ~MapHas(store[i], <<>>)

\* the normalized form of a query text: trimmed and lower-cased
NormalForm(q) == trim(toLowerCase(q))

\* this step is a call of operation op; StartedCall is the call it starts
StartStep(op) ==
  /\ Len(calls') = Len(calls) + 1
  /\ calls'[Len(calls')].op = op

StartedCall == calls'[Len(calls')]

\* map m has an entry whose key has the normalized form of q
EntryOfNormalForm(m, q) == \E k \in DOMAIN m : NormalForm(k) = NormalForm(q)

\* map m has an entry whose key is, lower-cased, the lower-cased q
EntryOfLowerCase(m, q) == \E k \in DOMAIN m : toLowerCase(k) = toLowerCase(q)

\* C17 as stated: a query string is resolved against a cache entry, and
\* against a store entry in hasData, getData and populateData, exactly when
\* the entry's key and the string have the same normalized form.
C17_SameEntryIffSameNormalForm ==
  [][ /\ StartStep("dataAPI.fetchData") =>
           /\ StartedCall.cacheHit <=> EntryOfNormalForm(cache[1], StartedCall.query)
           /\ ~StartedCall.cacheHit =>
                (StartedCall.hasNativeData <=>
                   EntryOfNormalForm(store[1], StartedCall.query))
      /\ StartStep("nativeSystemModule.hasData") =>
           (StartedCall.result.value <=> EntryOfNormalForm(store[1], StartedCall.query))
      /\ StartStep("nativeSystemModule.getData") =>
           (StartedCall.result.value # <<>> <=>
              EntryOfNormalForm(store[1], StartedCall.query)) ]_vars

\* C17 as amended: fetchData resolves a query string against the cache entry
\* and the store entry of its normalized form; the store's own hasData and
\* getData resolve the string they are given against the entry of its
\* lower-cased form, without trimming it.
C17_CacheByNormalFormStoreByLowerCase ==
  [][ /\ StartStep("dataAPI.fetchData") =>
           /\ StartedCall.cacheHit <=> EntryOfNormalForm(cache[1], StartedCall.query)
           /\ ~StartedCall.cacheHit =>
                (StartedCall.hasNativeData <=>
                   EntryOfLowerCase(store[1], NormalForm(StartedCall.query)))
      /\ StartStep("nativeSystemModule.hasData") =>
           (StartedCall.result.value <=> EntryOfLowerCase(store[1], StartedCall.query))
      /\ StartStep("nativeSystemModule.getData") =>
           (StartedCall.result.value # <<>> <=>
              EntryOfLowerCase(store[1], StartedCall.query)) ]_vars

\* the store's populateData("ai") has completed, and hasData(" AI") called on
\* the store afterwards has answered false
C17_Witness ==
  \E p \in Started : \E h \in Started :
    /\ calls[p].op = "nativeSystemModule.populateData" /\ Populated(p)
    /\ calls[h].op = "nativeSystemModule.hasData" /\ p \in calls[h].after
    /\ calls[p].query = <<"a", "i">> /\ calls[h].query = <<" ", "A", "I">>
    /\ calls[h].result = Returned(FALSE)

\* reads c and d, on one DataAPI and for one normalized query that was in
\* neither cache nor store when c started; d started before c had completed
OverlappingReads(c, d) ==
  /\ c < d
  /\ calls[c].op = "getData" /\ calls[d].op = "getData"
  /\ calls[c].inst = calls[d].inst
  /\ calls[c].query # Undefined /\ calls[d].query # Undefined
  /\ calls[c].key = calls[d].key
  /\ ~calls[c].cacheHit /\ ~calls[c].hasNativeData
  /\ c \notin calls[d].after

\* the store's populateData has been called for call c
InvokedPopulate(c) ==
  /\ calls[c].pc # "hasData"
  /\ "populate" \in calls[c].path

\* C18: two overlapping reads of one unseen query on one DataAPI both find
\* cache and store empty, and each calls the store's populateData and gets
\* the items generated for it.
C18_OverlappingReadsBothPopulate ==
  \A c \in Started : \A d \in Started :
    OverlappingReads(c, d) =>
      /\ ~calls[d].cacheHit /\ ~calls[d].hasNativeData
      /\ calls[c].pc # "hasData" => InvokedPopulate(c)
      /\ calls[d].pc # "hasData" => InvokedPopulate(d)
      /\ IsDone(c) => calls[c].result = Returned(calls[c].produced)
      /\ IsDone(d) => calls[d].result = Returned(calls[d].produced)

\* two overlapping reads of one query have completed, each with the items of
\* its own populateData, and the second overwrote the first's store entry
C18_Witness ==
  \E c \in Started : \E d \in Started :
    /\ OverlappingReads(c, d)
    /\ IsDone(c) /\ IsDone(d)
    /\ calls[c].path = {"populate"} /\ calls[d].path = {"populate"}
    /\ Len(calls[c].produced) # Len(calls[d].produced)
    /\ calls[c].due < calls[d].due
    /\ store[calls[d].inst][calls[d].key] = calls[d].produced

\* the items built for call c by generateMockData or by a simulateResponse
Created(c) == calls[c].produced \o calls[c].aiResponse

\* C19: no two distinct items built by generateMockData or by a provider's
\* simulateResponse have the same id, whatever the calls, the queries and the
\* times at which they were built.
C19_IdsUnique ==
  \A c \in Started : \A d \in Started :
    \A j \in 1..Len(Created(c)) : \A k \in 1..Len(Created(d)) :
      Created(c)[j].id = Created(d)[k].id => (c = d /\ j = k)

\* fetchData of call c has chosen its path
PathChosen(c) == calls[c].query # Undefined /\ calls[c].pc # "hasData"

\* C20: the fetchData call of every populateData request for a query string
\* runs the store's populateData, and the request completes with items
\* generated for it, which are then the store's items for the query.
C20_PopulateForcesPopulation ==
  \A c \in Started :
    (calls[c].op = "populateData" /\ PathChosen(c)) =>
      /\ calls[c].path = {"populate"}
      /\ IsDone(c) => Len(calls[c].produced) > 0

\* calls c and d are completed processQuery calls for one query, c answered
\* by the OpenAI service and d by the HuggingFace service
ProviderPair(c, d) ==
  /\ calls[c].op = "aiServiceFactory.processQuery" /\ IsDone(c)
  /\ calls[d].op = "aiServiceFactory.processQuery" /\ IsDone(d)
  /\ calls[c].query = calls[d].query
  /\ calls[c].provider = "openai" /\ calls[d].provider = "huggingface"

\* C21: for one query, the item of the OpenAI service and the item of the
\* HuggingFace service differ in source and in content, in the topic text (or
\* the general text) as well as in the closing line.
C21_ProvidersDiffer ==
  \A c \in Started : \A d \in Started :
    ProviderPair(c, d) =>
      /\ calls[c].result.kind = "returned" /\ calls[d].result.kind = "returned"
      /\ calls[c].result.value.source = "OpenAI GPT-4"
      /\ calls[d].result.value.source = "HuggingFace Mistral-7B"
      /\ calls[c].result.value.source # calls[d].result.value.source
      /\ calls[c].result.value.content # calls[d].result.value.content
      /\ calls[c].result.value.content[1] # calls[d].result.value.content[1]
      /\ calls[c].result.value.content[3] # calls[d].result.value.content[3]

\* both services have answered a query that matches a topic
C21_Witness ==
  \E c \in Started : \E d \in Started :
    /\ ProviderPair(c, d)
    /\ calls[c].query = <<"H", "e", "a", "l", "t", "h">>
    /\ calls[c].result.value.content[1] # OpenAIGeneral
    /\ calls[d].result.value.content[1] # HuggingFaceGeneral

\* call c has started early enough for its delay to elapse within MaxClock
StartedInTime(c) == c \in Started /\ clock + PopulateDelayMs <= MaxClock

Completed(c) == c \in Started /\ IsDone(c)

\* C22: every read, store population and provider call that has started
\* eventually completes with a result or an error, however the other calls
\* in flight are scheduled.
C22_EveryCallCompletes ==
  \A c \in 1..SessionCalls : StartedInTime(c) ~> Completed(c)

\* a provider call started after a read has completed while the read is
\* still in the store's delay, and a third call has ended in an error
C22_Witness ==
  \E c \in Started : \E d \in Started : \E e \in Started :
    /\ c < d
    /\ calls[c].op = "getData" /\ calls[c].pc = "populateDelay"
    /\ IsDone(d) /\ calls[d].result.kind = "returned" /\ calls[d].aiResponse # <<>>
    /\ IsDone(e) /\ calls[e].result.kind = "threw"

\* C23: a step of the App that changes the selected provider issues, when a
\* query is active, exactly one getData operation for that query with the
\* newly selected provider; when no query is active it issues nothing and
\* the query hook stays skipped.
C23_ProviderChangeReissues ==
  [][ ui'.provider # ui.provider =>
        IF ui.query # <<>>
        THEN ui'.issued = Append(ui.issued, [op |-> "getData", query |-> ui.query,
                                             provider |-> ui'.provider])
        ELSE ui'.issued = ui.issued /\ skip /\ skip' ]_vars

\* the provider was changed while no query was active, which issued nothing;
\* then a query was submitted and the provider changed back, which re-issued it
C23_Witness ==
  /\ Len(ui.issued) = 2
  /\ ui.issued[1] = [op |-> "getData", query |-> <<"q">>, provider |-> "huggingface"]
  /\ ui.issued[2] = [op |-> "getData", query |-> <<"q">>, provider |-> "openai"]
  /\ ui.provider = "openai"

\* this step is the completion of the store's populateData of call c
PopulateCompletes(c) ==
  /\ c \in Started
  /\ calls[c].pc = "populateDelay"
  /\ calls'[c].pc = "populateData"

\* C24: when the store's populateData completes for a query whose entry
\* exists already, the entry becomes exactly the items of this call: getData
\* returns them, no item an earlier call generated at an earlier time is
\* among them, and the entries of all other queries are as before.
C24_PopulateReplacesEntry ==
  [][ \A c \in 1..MaxCalls :
        PopulateCompletes(c) =>
          LET k   == toLowerCase(calls[c].key)
              old == MapGetOrEmpty(store[1], k)
          IN /\ getData(store'[1], calls[c].key) = calls'[c].produced
             /\ Len(calls'[c].produced) > 0
             /\ \A n \in 1..Len(old) :
                  old[n].timestamp < clock => old[n] \notin Range(getData(store'[1], calls[c].key))
             /\ \A q \in DOMAIN store[1] :
                  q # k => /\ q \in DOMAIN store'[1]
                           /\ store'[1][q] = store[1][q]
             /\ DOMAIN store'[1] = DOMAIN store[1] \cup {k} ]_vars

\* the store's populateData has completed twice for one entry, the second
\* call after the first, and the entry holds the second call's items only
C24_Witness ==
  \E c \in Started : \E d \in Started :
    /\ calls[c].op = "nativeSystemModule.populateData" /\ Populated(c)
    /\ calls[d].op = "nativeSystemModule.populateData" /\ Populated(d)
    /\ c \in calls[d].after
    /\ calls[c].query = <<"a", "i">> /\ calls[d].query = <<"A", "I">>
    /\ getData(store[1], <<"a", "i">>) = calls[d].produced
    /\ Len(calls[c].produced) > Len(calls[d].produced)

\* call c is a fetchData whose awaited store operation has rejected
StoreFailed(c) ==
  /\ calls[c].op = "dataAPI.fetchData"
  /\ calls[c].error # NoError

\* C25: when hasData, getData or populateData fails during fetchData, the
\* call fails with the one generic error 'Failed to fetch data from external
\* source', no tier is attempted a second time or after the failure, and no
\* step of the failed call changes the resolver cache.
C25_StoreFailureIsGeneric ==
  /\ [](\A c \in 1..Len(calls) :
         StoreFailed(c) =>
           /\ calls[c].error = FetchFailedMessage
           /\ calls[c].pc \in {"fetchData", "done"}
           /\ IsDone(c) => calls[c].result = Threw(FetchFailedMessage)
           /\ Cardinality(calls[c].path) <= 1
           /\ calls[c].produced = <<>>
           /\ ~calls[c].cacheHit)
  /\ [][\A c \in 1..Len(calls) :
          /\ (calls[c].op = "dataAPI.fetchData" /\ calls'[c] # calls[c]
                /\ calls'[c].error # NoError) => cache' = cache
          /\ (calls[c].op = "dataAPI.fetchData" /\ calls'[c] # calls[c]
                /\ cache' # cache) =>
                 (calls[c].fault \notin calls[c].path \cup {"hasData"}
                    /\ calls'[c].pc = "fetchData")
          /\ StoreFailed(c) =>
               (calls'[c].path = calls[c].path
                  /\ calls'[c].pc \in {"fetchData", "done"})]_vars

\* hasData has failed the second fetchData call on a DataAPI whose cache
\* holds the entry of the first
C25_Witness ==
  /\ Len(calls) = 3
  /\ \A c \in 1..3 : IsDone(c) /\ calls[c].op = "dataAPI.fetchData"
  /\ calls[1].result = Returned(calls[1].data)
  /\ StoreFailed(2) /\ calls[2].fault = "hasData"
  /\ cache[calls[2].inst] # EmptyMap

\* a fetchData call failed by getData: the store has the entry, the cache not
C25_WitnessGetData ==
  \E c \in 1..Len(calls) :
    IsDone(c) /\ StoreFailed(c) /\ calls[c].fault = "getData"

\* a fetchData call failed by populateData after the delay
C25_WitnessPopulateData ==
  \E c \in 1..Len(calls) :
    IsDone(c) /\ StoreFailed(c) /\ calls[c].fault = "populateData"

\* C26: fetchData returns at least 3 items or throws, so no getData and no
\* populateData mutation ever reaches the 'result is empty' branch: the
\* provider registry's processQuery is never invoked, whatever the provider.
C26_ProviderBranchUnreachable ==
  \A c \in Started :
    calls[c].op \in ResolverOps =>
      /\ calls[c].pc \notin {"processQuery", "simulateDelay"}
      /\ ~calls[c].aiInvoked
      /\ calls[c].service = "none"
      /\ calls[c].aiResponse = <<>>
      /\ calls[c].pc \in {"fetchData", "done"} =>
           \/ calls[c].error = FetchFailedMessage
           \/ calls[c].error = NoError /\ Len(calls[c].data) >= CountBase

\* a getData with an unregistered provider and a populateData mutation with
\* a registered one have ended, the getData with the fewest items possible
C26_Witness ==
  \E c, d \in Started :
    /\ IsDone(c) /\ IsDone(d)
    /\ calls[c].op = "getData" /\ calls[c].provider = "cohere"
    /\ calls[d].op = "populateData" /\ calls[d].provider = "huggingface"
    /\ calls[c].error = NoError /\ calls[d].error = NoError
    /\ Len(calls[c].data) = CountBase

\* C27: the server builds a new DataAPI for every request: when a getData or
\* populateData request starts, the cache and the store it uses are empty and
\* used by no other request, so every request takes the populate path and no
\* request has a cache hit or a store hit.
C27_FreshDataAPIPerRequest ==
  /\ [](\A c \in Started :
         /\ \A d \in Started : c # d => calls[c].inst # calls[d].inst
         /\ ~calls[c].cacheHit
         /\ ~calls[c].hasNativeData
         /\ calls[c].path = IF calls[c].pc = "hasData" THEN {} ELSE {"populate"})
  /\ [][Len(calls') = Len(calls) + 1 =>
          /\ StartedCall.op \in ResolverOps
          /\ cache[StartedCall.inst] = EmptyMap
          /\ store[StartedCall.inst] = EmptyMap]_vars

\* a request for a query has ended with items, and a later request for the
\* same query has populated again
C27_Witness ==
  /\ Len(calls) = 2
  /\ IsDone(1) /\ IsDone(2)
  /\ 1 \in calls[2].after
  /\ calls[1].key = calls[2].key
  /\ calls[1].op = "getData" /\ calls[2].op = "getData"
  /\ Len(calls[1].produced) >= CountBase
  /\ Len(calls[2].produced) >= CountBase

\* a fetchData call on DataAPI i has started and has not yet returned or thrown
FetchInFlight(i) ==
  \E c \in Started :
    /\ calls[c].inst = i
    /\ calls[c].pc \in {"hasData", "getData", "populateDelay", "populateData"}

\* C28: on one DataAPI, in every state, every query with a resolver-cache
\* entry has a fallback-store entry, and whenever no fetchData call is in
\* flight the cached sequence of a query is the sequence the store holds.
C28_CacheWithinStore ==
  \A i \in Instances :
    /\ DOMAIN cache[i] \subseteq DOMAIN store[i]
    /\ ~FetchInFlight(i) =>
         \A k \in DOMAIN cache[i] : cache[i][k] = store[i][k]

\* two overlapping fetchData calls for one query have populated different
\* sequences and have both returned; the cache holds an entry
C28_Witness ==
  /\ Len(calls) = 2
  /\ ~FetchInFlight(1)
  /\ calls[1].key = calls[2].key
  /\ 1 \notin calls[2].after
  /\ Len(calls[1].produced) # Len(calls[2].produced)
  /\ calls[1].produced # <<>> /\ calls[2].produced # <<>>
  /\ calls[1].query # calls[2].query
  /\ MapHas(cache[1], calls[1].key)

\* calls c and d run fetchData for the same query, unseen by both, on one
\* DataAPI: d starts before c has ended and both invoke populateData
OverlappingPopulates(c, d) ==
  /\ c < d
  /\ calls[c].inst = calls[d].inst
  /\ calls[c].key = calls[d].key
  /\ "populate" \in calls[c].path /\ "populate" \in calls[d].path
  /\ c \notin calls[d].after

\* fetchData of call c has returned its populated items to the caller
PopulateReturned(c) ==
  calls[c].pc \in {"fetchData", "done"} /\ calls[c].produced # <<>>

\* no call other than c and d populates the query of c
OnlyPopulates(c, d) ==
  \A e \in Started :
    (e \notin {c, d} /\ calls[e].inst = calls[c].inst /\ calls[e].key = calls[c].key)
      => "populate" \notin calls[e].path

\* of two returned populates, the one that completed last: the later
\* completion time, and the one now in the store when the times are equal
LastOf(c, d) ==
  LET tc == calls[c].produced[1].timestamp
      td == calls[d].produced[1].timestamp
  IN IF tc > td THEN c
     ELSE IF td > tc THEN d
     ELSE IF store[calls[c].inst][calls[c].key] = calls[c].produced THEN c ELSE d

FirstOf(c, d) == IF LastOf(c, d) = c THEN d ELSE c

\* C29: of two overlapping fetchData calls for one unseen query on one
\* DataAPI, the callers receive different sequences; once both have returned,
\* cache and store hold the sequence of the populate that finished last, a
\* later read returns it, and no item of the other caller is in cache or store.
C29_OverlappingCallersDiffer ==
  \A c \in Started : \A d \in Started :
    ( /\ OverlappingPopulates(c, d)
      /\ PopulateReturned(c) /\ PopulateReturned(d)
      /\ OnlyPopulates(c, d) ) =>
        LET i    == calls[c].inst
            k    == calls[c].key
            last == calls[LastOf(c, d)].produced
            lost == calls[FirstOf(c, d)].produced
        IN /\ calls[c].data # calls[d].data
           /\ store[i][k] = last
           /\ MapHas(cache[i], k) => cache[i][k] = last
           /\ Range(lost) \cap Range(store[i][k]) = {}
           /\ \A e \in Started :
                ( /\ calls[e].inst = i /\ calls[e].key = k
                  /\ {c, d} \subseteq calls[e].after
                  /\ calls[e].pc \in {"fetchData", "done"} ) =>
                    calls[e].data = last

\* what holds of the same calls also when both populates complete in one
\* millisecond: each caller receives what its own populate generated, cache
\* and store hold the sequence of the populate that finished last, a later
\* read returns it, and the other caller's items are gone from cache and
\* store when the two populates completed at different times
C29_LastPopulateWins ==
  \A c \in Started : \A d \in Started :
    ( /\ OverlappingPopulates(c, d)
      /\ PopulateReturned(c) /\ PopulateReturned(d)
      /\ OnlyPopulates(c, d) ) =>
        LET i    == calls[c].inst
            k    == calls[c].key
            last == calls[LastOf(c, d)].produced
            lost == calls[FirstOf(c, d)].produced
        IN /\ calls[c].data = calls[c].produced
           /\ calls[d].data = calls[d].produced
           /\ store[i][k] = last
           /\ MapHas(cache[i], k) => cache[i][k] = last
           /\ lost[1].timestamp # last[1].timestamp =>
                /\ calls[c].data # calls[d].data
                /\ Range(lost) \cap Range(store[i][k]) = {}
           /\ \A e \in Started :
                ( /\ calls[e].inst = i /\ calls[e].key = k
                  /\ {c, d} \subseteq calls[e].after
                  /\ calls[e].pc \in {"fetchData", "done"} ) =>
                    calls[e].data = last

\* two overlapping populates of one query completed at different times and a
\* later read of the query has returned the second one's items
C29_Witness ==
  /\ Len(calls) = 3
  /\ OverlappingPopulates(1, 2)
  /\ IsDone(1) /\ IsDone(2) /\ IsDone(3)
  /\ PopulateReturned(1) /\ PopulateReturned(2)
  /\ {1, 2} \subseteq calls[3].after
  /\ calls[3].key = calls[1].key
  /\ calls[1].produced[1].timestamp < calls[2].produced[1].timestamp
  /\ calls[3].data = calls[2].produced
  /\ calls[3].cacheHit

\* read r of a query had ended with items before populate request p for
\* another query started, and read n of r's query is the next call for that
\* query after p has started
ReadPopulateRead(r, p, n) ==
  /\ r < p /\ p < n
  /\ calls[r].op = "getData" /\ calls[p].op = "populateData"
  /\ calls[n].op = "getData"
  /\ calls[r].inst = calls[p].inst /\ calls[p].inst = calls[n].inst
  /\ r \in calls[p].after
  /\ calls[r].result = Returned(calls[r].data)
  /\ calls[p].query # Undefined
  /\ calls[p].key # calls[r].key
  /\ calls[n].query # Undefined
  /\ calls[n].key = calls[r].key
  /\ \A e \in Started :
       (r < e /\ e < n /\ calls[e].query # Undefined) => calls[e].key # calls[r].key

\* C30: a populate request for Q empties the resolver cache for every query;
\* the next read of another query Q' resolved earlier is a store hit, invokes
\* no populateData, returns the sequence Q' had before the populate and puts
\* it back into the cache.
C30_PopulateEvictsAllQueries ==
  /\ [][StartStep("populateData") => cache'[StartedCall.inst] = EmptyMap]_vars
  /\ [](\A r \in Started : \A p \in Started : \A n \in Started :
         ReadPopulateRead(r, p, n) =>
           /\ ~calls[n].cacheHit
           /\ calls[n].hasNativeData
           /\ calls[n].path \subseteq {"store"}
           /\ calls[n].produced = <<>>
           /\ calls[n].pc \in {"getData", "fetchData", "done"} =>
                calls[n].data = calls[r].data
           /\ calls[n].pc \in {"fetchData", "done"} =>
                /\ MapHas(cache[calls[n].inst], calls[n].key)
                /\ cache[calls[n].inst][calls[n].key] = calls[r].data
           /\ IsDone(n) => calls[n].result = Returned(calls[r].data))

\* a read of "ai", then a populate request for "q" that found "ai" cached,
\* then a second read of "ai" have all ended
C30_Witness ==
  /\ Len(calls) = 3
  /\ ReadPopulateRead(1, 2, 3)
  /\ IsDone(1) /\ IsDone(2) /\ IsDone(3)
  /\ calls[2].result.kind = "returned"
  /\ calls[3].path = {"store"}
  /\ calls[3].result = Returned(calls[1].data)
  /\ DOMAIN cache[1] = {calls[1].key, calls[2].key}

=============================================================================
